---- MODULE Spec2Model ----
(***************************************************************************)
(* push-ref-gitlab (src/index.js): one run of the script that mirrors a    *)
(* GitHub ref into a GitLab project.  The script is a chain of promise     *)
(* handlers; every action below is one callback of that chain (module      *)
(* load, the "end"/"error" event of an HTTPS request, the "close"/"error"  *)
(* event of a git child process) together with the .then handlers that run *)
(* in the same tick, up to and including the start of the next operation.  *)
(* The GitLab server, the file system and the git binary are the           *)
(* environment: their state is kept, and their replies are drawn from what *)
(* that state allows, plus faults.                                         *)
(***************************************************************************)
EXTENDS Naturals, Sequences, FiniteSets

VARIABLES
    flags,          \* the command-line flags that were given (argv)
    tokenNs,        \* the GitLab namespace GITLAB_TOKEN authenticates as
    strictHeaders,  \* whether the runtime's http module refuses an undefined header value
    gitInstalled,   \* whether spawn("git") finds the executable
    calls,          \* further calls of ensureGitlabProjectExists the caller will make
    pc,             \* "init", "running", "done", "aborted" (the final catch ran), "crashed"
    inFlight,       \* operations whose promise is pending (HTTP request or child process)
    started,        \* the operations started so far, in order
    log,            \* lines printed so far
    abortedBy,      \* what ended the chain: "none", "config", "api", "spawn", "exit", "throw"
    data,           \* the project id handed from ensureGitlabProjectExists to enableGitlabRunner
    wdAtCheck,      \* what pathExists looked at in ensureRepoWorkingDirExists ("unchecked" before)
    projects,       \* GitLab: namespaces that hold a project named GITLAB_REPO
    runners,        \* GitLab: projects (by id) that have runner GITLAB_RUNNER_ID enabled
    hooks,          \* GitLab: number of build-events hooks with the configured URL, per project
    wd,             \* {cwd}/{repo}_{owner}: "absent", "repo" (a git work tree) or "junk"
    remote,         \* the work tree's remote named gitlab: "none", "stale" or "current"
    pushedTo,       \* where the last successful push went: "none", "stale" or "current"
    lastApi,        \* the last settled GitLab response and how makeGitlabRequest settled it
    apiRejected,    \* some makeGitlabRequest promise has rejected
    gitNonZero      \* git operations that closed with a non-zero exit code (warning printed)

env    == <<flags, tokenNs, strictHeaders, gitInstalled>>
ctl    == <<pc, inFlight, started, log, abortedBy>>
chain  == <<data, calls, wdAtCheck>>
gitlab == <<projects, runners, hooks>>
fs     == <<wd, remote, pushedTo>>
hist   == <<lastApi, apiRejected, gitNonZero>>
vars   == <<env, ctl, chain, gitlab, fs, hist>>

----------------------------------------------------------------------------
(* Bounds of the model *)

MaxMissingFlags == 1    \* at most this many required flags are left out
MaxHooks == 1           \* a project starts with at most this many hooks
MaxExtraCalls == 1      \* SpecTwice: ensureGitlabProjectExists is called this many more times

----------------------------------------------------------------------------
(* Configuration, lines 10-40 *)

RequiredFlags ==
    {"ref", "gitlab-repo-owner", "gitlab-repo-name", "gitlab-token",
     "github-repo-owner", "github-repo-name"}

Undef == "undefined"

\* GITLAB_USER: argv['gitlab-repo-owner'], undefined when the flag is absent;
\* string concatenation then writes "undefined" into every path.
GITLAB_USER == IF "gitlab-repo-owner" \in flags THEN "owner" ELSE Undef

Namespaces == {"owner", "other", Undef}

ApiOps == {"lookup", "create", "runner", "hook"}
GitOps == {"clone", "remove", "add", "push"}

Rank(op) ==
    CASE op = "lookup" -> 1 [] op = "create" -> 2 [] op = "runner" -> 3
      [] op = "hook" -> 4   [] op = "clone" -> 5  [] op = "remove" -> 6
      [] op = "add" -> 7    [] op = "push" -> 8

Range(s) == {s[i] : i \in 1..Len(s)}

----------------------------------------------------------------------------
(* makeGitlabRequest's response handling, lines 71-92 *)

RunnerEnabled == "Runner was already enabled for this project"
ProjectNotFound == "404 Project Not Found"
BENIGN_ERRORS == {RunnerEnabled, ProjectNotFound}

NoMessage == "(no message)"

\* Response bodies as sent.
Obj(m, i) == [kind |-> "json_object", message |-> m, id |-> i]
NonObject(k) == [kind |-> k, message |-> NoMessage, id |-> Undef]
NonObjectBodies == {NonObject(k) : k \in {"json_null", "json_number", "html", "empty"}}

\* try { body = JSON.parse(body) } catch (e) {}: text that is not JSON (and the
\* empty string) stays the string it was; JSON null and a JSON number parse to
\* null and a number.
JSONparse(raw) ==
    CASE raw.kind = "json_object" -> [type |-> "object", message |-> raw.message, id |-> raw.id]
      [] raw.kind = "json_null"   -> [type |-> "null", message |-> NoMessage, id |-> Undef]
      [] raw.kind = "json_number" -> [type |-> "number", message |-> NoMessage, id |-> Undef]
      [] OTHER                    -> [type |-> "string", message |-> NoMessage, id |-> Undef]

\* body.message: a TypeError on null, undefined on a string or a number.
ReadThrows(body) == body.type = "null"
\* body.res = res under "use strict": a TypeError on null and on a primitive.
WriteThrows(body) == body.type # "object"

makeGitlabRequest(status, raw) ==
    LET body == JSONparse(raw) IN
    IF status >= 400 /\ ReadThrows(body) THEN "throw"
    ELSE IF status >= 400 /\ body.message \notin BENIGN_ERRORS THEN "reject"
    ELSE IF WriteThrows(body) THEN "throw"
    ELSE "resolve"

\* https.request with headers {"PRIVATE-TOKEN": undefined}: newer runtimes throw
\* inside the promise executor, older ones send the header as written.
HeaderThrows == "gitlab-token" \notin flags /\ strictHeaders

----------------------------------------------------------------------------
(* The GitLab server as the requests address it *)

Resp(s, b, e) == [status |-> s, raw |-> b, effect |-> e]

\* GET projects/{account}%2F{repo}, lines 106-107.
LookupReplies ==
    IF GITLAB_USER \in projects
    THEN {Resp(200, Obj(NoMessage, GITLAB_USER), "none")}
    ELSE {Resp(404, Obj(ProjectNotFound, Undef), "none")}

\* POST /projects with {name, public, shared_runners_enabled, issues_enabled},
\* lines 116-123: the account is not part of the request, so the project is
\* created in the namespace of the token.
CreateReplies ==
    IF tokenNs \in projects
    THEN {Resp(400, Obj("name has already been taken", Undef), "none")}
    ELSE {Resp(201, Obj(NoMessage, tokenNs), "create")}

\* POST /projects/{id}/runners with {runner_id}, lines 138-142.
RunnerReplies ==
    IF data \notin projects THEN {Resp(404, Obj(ProjectNotFound, Undef), "none")}
    ELSE IF data \in runners THEN {Resp(400, Obj(RunnerEnabled, Undef), "none")}
    ELSE {Resp(201, Obj(NoMessage, data), "attach")}

\* POST projects/{owner}%2F{repo}/hooks with {url, build_events, push_events},
\* lines 144-150.
HookReplies ==
    IF GITLAB_USER \notin projects THEN {Resp(404, Obj(ProjectNotFound, Undef), "none")}
    ELSE {Resp(201, Obj(NoMessage, GITLAB_USER), "hook")}

\* Replies that do not come from the API's own handlers: an error page or an
\* empty or null body from the server or a proxy in front of it.
FaultReplies ==
    {Resp(s, b, "none") : s \in {200, 500}, b \in NonObjectBodies}
        \cup {Resp(500, Obj("500 Internal Server Error", Undef), "none")}

Replies(op) ==
    IF "gitlab-token" \notin flags
    THEN {Resp(401, Obj("401 Unauthorized", Undef), "none")} \cup FaultReplies
    ELSE FaultReplies \cup
         (CASE op = "lookup" -> LookupReplies
            [] op = "create" -> CreateReplies
            [] op = "runner" -> RunnerReplies
            [] op = "hook"   -> HookReplies)

ServerApplies(e) ==
    /\ projects' = IF e = "create" THEN projects \cup {tokenNs} ELSE projects
    /\ runners' = IF e = "attach" THEN runners \cup {data} ELSE runners
    /\ hooks' = IF e = "hook" THEN [hooks EXCEPT ![GITLAB_USER] = @ + 1] ELSE hooks

----------------------------------------------------------------------------
(* The git executable and the working directory *)

Out(c, w, r, p) == [code |-> c, wd |-> w, remote |-> r, pushedTo |-> p]
Unchanged(c) == Out(c, wd, remote, pushedTo)

\* spawn emits "error" when the executable is missing or when opts.cwd is not
\* a directory; cloneRepo (line 172) passes no cwd.
SpawnFails(op) == ~gitInstalled \/ (op # "clone" /\ wd = "absent")

\* What a git child process that did start can do, by exit code.  A failed
\* clone removes the directory it made, or leaves the work tree when only the
\* checkout failed; any command can fail without effect.
GitOutcomes(op) ==
    CASE op = "clone" ->
            {Out(0, "repo", "none", pushedTo), Out(1, "absent", "none", pushedTo),
             Out(1, "repo", "none", pushedTo)}
      [] op = "remove" ->
            {Unchanged(1)} \cup
            (IF wd = "repo" /\ remote # "none" THEN {Out(0, wd, "none", pushedTo)} ELSE {})
      [] op = "add" ->
            {Unchanged(1)} \cup
            (IF wd = "repo" /\ remote = "none" THEN {Out(0, wd, "current", pushedTo)} ELSE {})
      [] op = "push" ->
            {Unchanged(1)} \cup
            (IF wd = "repo" /\ remote # "none" THEN {Out(0, wd, remote, remote)} ELSE {})

\* A git that rejects on a non-zero exit code.
gitRejectsNonZero(exitCode) == IF exitCode # 0 THEN "reject" ELSE "resolve"

\* proc.on("close"): the promise resolves whatever the exit code, lines 162-167.
git(exitCode) == "resolve"

\* A pathExists that never finds the path.
pathExistsNever == FALSE

\* pathExists(getRepoWorkingDirPath(name, owner)), lines 43-50 and 220-221.
pathExists == wd # "absent"

----------------------------------------------------------------------------
(* The promise chain, lines 125-136 and 219-259 *)

\* What a handler does to the control state: `cur` has settled, the operations
\* of `launch` are started, `lines` are printed.
Ctl(cur, launch, newpc, lines, cause) ==
    /\ inFlight' = (inFlight \ {cur}) \cup Range(launch)
    /\ started' = started \o launch
    /\ pc' = newpc
    /\ log' = log \cup lines
    /\ abortedBy' = cause

\* The final .catch, lines 257-259: nothing further is started, the error is printed.
Catch(cur, cause) == Ctl(cur, <<>>, "aborted", {"error"}, cause)

\* Starting the operations `ops`.  A request whose headers the runtime refuses
\* throws inside makeGitlabRequest's executor, which rejects the promise
\* before anything is sent.
Launch(cur, ops, lines) ==
    IF ops # <<>> /\ ops[1] \in ApiOps /\ HeaderThrows
    THEN Catch(cur, "api")
    ELSE Ctl(cur, ops, "running", lines, abortedBy)

\* An ensureRepoRemoteExists that starts addRemote without waiting for the removal.
ensureRepoRemoteExistsNoWait == <<"remove", "add">>

\* ensureRepoRemoteExists, lines 229-233: the operations it starts when called
\* (addRemote is started by the .then of getGitlabRemote, see Resolved).
ensureRepoRemoteExists == <<"remove">>

\* ensureRepoWorkingDirExists, lines 219-227.  With the path present its
\* promise is already resolved, and the next handler (lines 247-250) runs in
\* the same tick.
ensureRepoWorkingDirExists ==
    IF pathExists THEN ensureRepoRemoteExists ELSE <<"clone">>

\* ensureGitlabProjectExists has resolved with a project whose id is `id`:
\* the caller goes on, lines 236-239.
EnsureResolved(op, id) ==
    /\ data' = id
    /\ wdAtCheck' = wdAtCheck
    /\ IF calls > 0
       THEN calls' = calls - 1 /\ Launch(op, <<"lookup">>, {})
       ELSE calls' = calls /\ Launch(op, <<"runner">>, {})

\* The .then handlers that run when the promise of `op` resolves.
Resolved(op, status, id) ==
    CASE op = "lookup" ->
            \* data.projectExists = data.res.statusCode !== 404, line 109
            IF status # 404
            THEN EnsureResolved(op, id)
            ELSE Launch(op, <<"create">>, {"Creating the project."}) /\ UNCHANGED chain
      [] op = "create" -> EnsureResolved(op, id)
      [] op = "runner" -> Launch(op, <<"hook">>, {}) /\ UNCHANGED chain
      [] op = "hook" ->
            /\ wdAtCheck' = wd
            /\ Launch(op, ensureRepoWorkingDirExists, {"The build events hook was created."})
            /\ UNCHANGED <<data, calls>>
      [] op = "clone" -> Launch(op, ensureRepoRemoteExists, {}) /\ UNCHANGED chain
      [] op = "remove" -> Launch(op, <<"add">>, {}) /\ UNCHANGED chain
      [] op = "add" -> Launch(op, <<"push">>, {}) /\ UNCHANGED chain
      [] op = "push" ->
            Ctl(op, <<>>, "done", {"Pushed the ref to Gitlab."}, abortedBy) /\ UNCHANGED chain

\* A chain that also swallows a rejection of enableGitlabRunner.
catchesRunner(op) == op \in {"remove", "runner"}

\* The operations whose rejection is caught before the final .catch:
\* getGitlabRemote resolves with "" when git remote remove rejects, lines 197-199.
catches(op) == op = "remove"

\* The promise of `op` rejects.
Rejected(op, cause) ==
    IF catches(op)
    THEN Resolved(op, 0, Undef)
    ELSE Catch(op, cause) /\ UNCHANGED chain

----------------------------------------------------------------------------
(* Actions: one per callback *)

\* Module load, lines 10-40 and 235-236.  argv['ref'].split throws a TypeError
\* when --ref is absent; no other flag is looked at.
Main ==
    /\ pc = "init"
    /\ IF "ref" \notin flags
       THEN Ctl("none", <<>>, "crashed", {"uncaught TypeError"}, "config")
       ELSE Launch("none", <<"lookup">>, {})
    /\ apiRejected' = (apiRejected \/ abortedBy' = "api")
    /\ UNCHANGED <<env, chain, gitlab, fs, lastApi, gitNonZero>>

\* res.on("end"), lines 79-92, and the handlers its settlement runs.
OnResponseEnd(op) ==
    /\ op \in inFlight
    /\ \E r \in Replies(op) :
        LET result == makeGitlabRequest(r.status, r.raw) IN
        /\ ServerApplies(r.effect)
        /\ lastApi' = [op |-> op, status |-> r.status, raw |-> r.raw, result |-> result]
        /\ CASE result = "resolve" -> Resolved(op, r.status, JSONparse(r.raw).id)
             [] result = "reject" -> Rejected(op, "api")
             [] result = "throw" ->
                    Ctl(op, <<>>, "crashed", {"uncaught TypeError"}, "throw")
                        /\ UNCHANGED chain
        /\ apiRejected' = (apiRejected \/ result = "reject" \/ abortedBy' = "api")
    /\ UNCHANGED <<env, fs, gitNonZero>>

\* request.on("error") and res.on("error"), lines 76-78 and 93-95.
OnRequestError(op) ==
    /\ op \in inFlight
    /\ Rejected(op, "api")
    /\ apiRejected' = TRUE
    /\ UNCHANGED <<env, gitlab, fs, lastApi, gitNonZero>>

\* proc.on("close"), lines 162-167.
OnGitClose(op) ==
    /\ op \in inFlight
    /\ ~SpawnFails(op)
    /\ \E o \in GitOutcomes(op) :
        /\ wd' = o.wd /\ remote' = o.remote /\ pushedTo' = o.pushedTo
        /\ gitNonZero' = IF o.code # 0 THEN gitNonZero \cup {op} ELSE gitNonZero
        /\ IF git(o.code) = "resolve"
           THEN Resolved(op, 0, Undef)
           ELSE Rejected(op, "exit")
    /\ apiRejected' = (apiRejected \/ abortedBy' = "api")
    /\ UNCHANGED <<env, gitlab, lastApi>>

\* proc.on("error", reject), line 162.
OnGitError(op) ==
    /\ op \in inFlight
    /\ SpawnFails(op)
    /\ Rejected(op, "spawn")
    /\ apiRejected' = (apiRejected \/ abortedBy' = "api")
    /\ UNCHANGED <<env, gitlab, fs, lastApi, gitNonZero>>

----------------------------------------------------------------------------
(* Specifications *)

FlagChoices ==
    {RequiredFlags \ m : m \in {x \in SUBSET RequiredFlags : Cardinality(x) <= MaxMissingFlags}}

InitEnv ==
    /\ flags \in FlagChoices
    /\ tokenNs \in {"owner", "other"}
    /\ strictHeaders \in BOOLEAN
    /\ gitInstalled \in BOOLEAN
    /\ projects \in SUBSET {"owner", "other"}
    /\ runners \in SUBSET projects
    /\ hooks \in [Namespaces -> 0..MaxHooks]
    /\ \A n \in Namespaces \ projects : hooks[n] = 0
    /\ wd \in {"absent", "repo", "junk"}
    /\ remote \in {"none", "stale", "current"}
    /\ wd # "repo" => remote = "none"

InitRun ==
    /\ pc = "init"
    /\ inFlight = {}
    /\ started = <<>>
    /\ log = {}
    /\ abortedBy = "none"
    /\ data = Undef
    /\ wdAtCheck = "unchecked"
    /\ pushedTo = "none"
    /\ lastApi = [op |-> "none", status |-> 0, raw |-> NonObject("empty"), result |-> "none"]
    /\ apiRejected = FALSE
    /\ gitNonZero = {}

\* One run of the script.
Init == InitEnv /\ InitRun /\ calls = 0

\* A caller that calls ensureGitlabProjectExists again once it has resolved,
\* before going on.
InitTwice == InitEnv /\ InitRun /\ calls = MaxExtraCalls

Next ==
    \/ Main
    \/ \E op \in ApiOps : OnResponseEnd(op)
    \/ \E op \in ApiOps : OnRequestError(op)
    \/ \E op \in GitOps : OnGitClose(op)
    \/ \E op \in GitOps : OnGitError(op)

Spec == Init /\ [][Next]_vars

SpecTwice == InitTwice /\ [][Next]_vars

----------------------------------------------------------------------------
(* Properties *)

Terminal == {"done", "aborted", "crashed"}
Mandatory == {"lookup", "runner", "hook", "remove", "add", "push"}
Ops == Range(started)
HookLine == "The build events hook was created."
PushedLine == "Pushed the ref to Gitlab."

\* C1: a response with status >= 400 resolves when its message is one of the
\* two benign strings and rejects with the body otherwise.
C1_ErrorStatusSettles ==
    (lastApi.op # "none" /\ lastApi.status >= 400) =>
        IF lastApi.raw.message \in BENIGN_ERRORS
        THEN lastApi.result = "resolve"
        ELSE lastApi.result = "reject"

\* C2: a response with status < 400 resolves whatever its body is; it never
\* rejects, throws or stays unsettled.
C2_SuccessStatusResolves ==
    (lastApi.op # "none" /\ lastApi.status < 400) => lastApi.result = "resolve"

\* C3: once a GitLab API call has rejected the run is aborted: the error is
\* printed, nothing is in flight, and no request or git subprocess is started
\* afterwards.
C3_RejectionAborts ==
    /\ [](apiRejected => (pc = "aborted" /\ inFlight = {} /\ "error" \in log))
    /\ [][apiRejected => started' = started]_vars

C3_Witness ==
    /\ apiRejected
    /\ pc = "aborted"
    /\ lastApi.op = "runner"
    /\ lastApi.result = "reject"
    /\ started = <<"lookup", "create", "runner">>

\* C4 as claimed: after a non-zero exit code of any git subprocess the run is
\* never aborted and ends by printing "Pushed the ref to Gitlab.".
C4_NonZeroExitNeverAborts ==
    gitNonZero # {} =>
        /\ pc # "aborted"
        /\ pc \in Terminal => PushedLine \in log

\* C4 as amended: a non-zero exit code never rejects the git call; the call
\* resolves and the next stage is started at once.  The run then ends with
\* "Pushed the ref to Gitlab.", unless a later git subprocess fails to spawn,
\* which after a non-zero exit happens exactly when the failed clone left no
\* working directory; then the run ends by rejection.
C4_NonZeroExitResolves ==
    gitNonZero # {} =>
        /\ abortedBy \in {"none", "spawn"}
        /\ pc \in {"running", "done", "aborted"}
        /\ "clone" \in gitNonZero => "remove" \in Ops
        /\ "remove" \in gitNonZero => "add" \in Ops
        /\ "add" \in gitNonZero => "push" \in Ops
        /\ "push" \in gitNonZero => (pc = "done" /\ PushedLine \in log)
        /\ pc = "done" => PushedLine \in log
        /\ pc = "aborted" => (wd = "absent" /\ "clone" \in gitNonZero /\ "push" \notin Ops)

C4_Witness ==
    /\ "push" \in gitNonZero
    /\ pc = "done"
    /\ PushedLine \in log

\* C5: while the push subprocess runs the working directory exists and has
\* the remote gitlab pointing at the URL of the current configuration.
C5_RemoteCurrentAtPush ==
    "push" \in inFlight => (wd = "repo" /\ remote = "current")

\* C6: of two calls of ensureGitlabProjectExists in sequence, the second
\* never issues a project-creation request.
C6_SecondCallNeverCreates ==
    RequiredFlags \subseteq flags =>
        ~ \E i, j, k \in 1..Len(started) :
            /\ i < j /\ j < k
            /\ started[i] = "lookup" /\ started[j] = "lookup" /\ started[k] = "create"

\* C7: at most one request or subprocess is in flight, it is the one started
\* last, and operations start in the order lookup, (create), runner, hook,
\* (clone), remove, add, push, none of the others being skipped.
C7_OneAtATimeInOrder ==
    /\ Cardinality(inFlight) <= 1
    /\ inFlight # {} => inFlight = {started[Len(started)]}
    /\ \A i, j \in 1..Len(started) : i < j => Rank(started[i]) < Rank(started[j])
    /\ \A op \in Ops : \A m \in Mandatory : Rank(m) < Rank(op) => m \in Ops
    /\ pc = "done" => Mandatory \subseteq Ops

C7_Witness ==
    /\ pc = "done"
    /\ started = <<"lookup", "create", "runner", "hook", "clone", "remove", "add", "push">>

\* C8: with a required flag absent the program fails during configuration,
\* before any request is issued or any subprocess is spawned.
C8_MissingFlagFailsFast ==
    (pc # "init" /\ ~(RequiredFlags \subseteq flags)) =>
        (pc = "crashed" /\ abortedBy = "config" /\ started = <<>>)

\* C9 as claimed: clone is spawned iff the path was absent, and in both cases
\* remote removal, remote add and push are run afterwards.
C9_CloneIffAbsentThenAllRun ==
    wdAtCheck # "unchecked" =>
        /\ "clone" \in Ops <=> wdAtCheck = "absent"
        /\ pc \in Terminal => {"remove", "add", "push"} \subseteq Ops

\* C9 as amended: clone is spawned iff the path was absent.  When the path
\* exists no clone is invoked and, git being spawnable, remote removal, remote
\* add and push all run.  When the clone ran they run too unless a git
\* subprocess fails to spawn (no executable, or the failed clone left no
\* directory), which rejects the run before the push.
C9_CloneIffAbsent ==
    wdAtCheck # "unchecked" =>
        /\ "clone" \in Ops <=> wdAtCheck = "absent"
        /\ pc \in {"running", "done", "aborted"}
        /\ pc = "done" => {"remove", "add", "push"} \subseteq Ops
        /\ pc = "aborted" =>
            (abortedBy = "spawn" /\ (~gitInstalled \/ wd = "absent") /\ "push" \notin Ops)
        /\ (wdAtCheck # "absent" /\ gitInstalled /\ pc \in Terminal) => pc = "done"

C9_Witness ==
    /\ wdAtCheck = "repo"
    /\ pc = "done"
    /\ started = <<"lookup", "runner", "hook", "remove", "add", "push">>

\* C10: a run that got past the webhook stage has the project owner/repo
\* existing, the runner enabled on it and a build-events hook registered on it.
C10_HookStageMeansProvisioned ==
    (RequiredFlags \subseteq flags /\ HookLine \in log) =>
        /\ GITLAB_USER \in projects
        /\ GITLAB_USER \in runners
        /\ hooks[GITLAB_USER] >= 1

====
